---- MODULE Spec2Model ----
(***************************************************************************)
(* Model of spruce_tools/deprecate.py (removal planner and executor) and   *)
(* of the orphaned-installer report of spruce_tools/report.py.             *)
(*                                                                         *)
(* Representation.                                                         *)
(*   - A path is the sequence of its "/"-separated components; an absolute *)
(*     path starts with the empty component, as "/repo/pkgs".split("/")    *)
(*     does: "/repo/pkgs" is <<"", "repo", "pkgs">>.                       *)
(*   - A product name is the sequence of its characters, so that           *)
(*     str.startswith and str.endswith are computed: "Foo" is              *)
(*     <<"F","o","o">>.                                                    *)
(*   - A missing or empty optional key of a pkginfo (category,             *)
(*     installer_item_location) is the falsy value: None for category,     *)
(*     <<>> for installer_item_location.                                   *)
(*   - The filesystem is the set of regular files and the set of           *)
(*     directories; pkginfo files carry their parsed content in plists.    *)
(***************************************************************************)
EXTENDS Integers, Sequences, FiniteSets, TLC

VARIABLES
    files,          \* regular files that exist (repository and archive)
    dirs,           \* directories that exist
    plists,         \* parsed content of every pkginfo file, keyed by path
    manifests,      \* content of every file of <repo>/manifests, keyed by name
    removal_plist,  \* parsed content of the file args.plist designates
    args,           \* the parsed command line of deprecate
    pc,             \* position of the deprecate run
    run,            \* number of the deprecate invocation
    cache,          \* deprecate: cache
    removals,       \* deprecate: removals
    names,          \* deprecate: names
    warnings,       \* pkginfo paths warn_about_multiple_refs printed a warning for
    response,       \* the answer read by raw_input, NoResponse before the prompt
    idx,            \* position of the file loop in removals (move_to_archive, remove)
    gone,           \* paths this run deleted or moved out of the repository
    errors,         \* paths for which remove printed "Unable to remove"
    read,           \* manifests parsed by readPlist in the rewrite pass of this run
    written,        \* manifests written by writePlist in this run
    advisories,     \* manifest items the "may match a name" advisory was printed for
    exit_status,    \* exit status of the finished run, NoStatus while it runs
    faults,         \* operating-system errors the environment has raised so far
    report_items,   \* Report.items of the last report run (paths of the items)
    added,          \* pkginfo paths written by another actor during the run
    used_items,     \* the used-name set of the usage resolver
    passes          \* passes of the usage resolver that grew used_items

vars == <<files, dirs, plists, manifests, removal_plist, args, pc, run, cache,
          removals, names, warnings, response, idx, gone, errors, read, written,
          advisories, exit_status, faults, report_items, added, used_items,
          passes>>

(***************************************************************************)
(* Bounds of the model.                                                    *)
(***************************************************************************)
NumPkginfos == 2
MaxRuns == 2
MaxFaults == 1

(***************************************************************************)
(* Values.                                                                 *)
(***************************************************************************)
None == "None"
NoResponse == "<no response>"
NoStatus == -1

Foo == <<"F", "o", "o">>
FooBar == <<"F", "o", "o", "B", "a", "r">>
Bar == <<"B", "a", "r">>

\* tools.get_repo_path(): the repository root.
get_repo_path == <<"", "repo">>

\* tools.get_pkg_path(): the installer root.
get_pkg_path == get_repo_path \o <<"pkgs">>

pkgsinfo_path == get_repo_path \o <<"pkgsinfo">>

archive_root == <<"", "archive">>

(***************************************************************************)
(* os.path and str helpers.                                                *)
(***************************************************************************)
\* os.path.join(a, b): an absolute b discards a.
join(a, b) == IF b # <<>> /\ b[1] = "" THEN b ELSE a \o b

\* os.path.dirname(p)
dirname(p) == IF Len(p) = 0 THEN p ELSE SubSeq(p, 1, Len(p) - 1)

\* s.startswith(t), for one string t
startswith(s, t) == Len(t) <= Len(s) /\ SubSeq(s, 1, Len(t)) = t

\* s.endswith(t), for one string t
endswith(s, t) == Len(t) <= Len(s) /\ SubSeq(s, Len(s) - Len(t) + 1, Len(s)) = t

\* s.startswith(tuple(ts)) and s.endswith(tuple(ts)): any element matches.
startswith_any(s, ts) == \E t \in ts : startswith(s, t)
endswith_any(s, ts) == \E t \in ts : endswith(s, t)

\* Position of the first occurrence of old in s, 0 when there is none.
find(s, old) ==
    LET hits == {k \in 1..(Len(s) - Len(old) + 1) : SubSeq(s, k, k + Len(old) - 1) = old}
    IN IF hits = {} THEN 0 ELSE CHOOSE k \in hits : \A j \in hits : k <= j

\* item.replace(old, new, 1): the first occurrence only.
replace(item, old, new) ==
    LET k == find(item, old)
    IN IF k = 0 THEN item
       ELSE SubSeq(item, 1, k - 1) \o new \o SubSeq(item, k + Len(old), Len(item))

\* The directories os.makedirs(folder) has to find or create.
ancestors(folder) == {SubSeq(folder, 1, k) : k \in 2..Len(folder)}

\* os.path.exists(p)
exists(p) == p \in files \/ p \in dirs

\* p is path q or lies below it.
under(p, q) == startswith(p, q)

(***************************************************************************)
(* The repository on disk.                                                 *)
(***************************************************************************)
\* Relative paths of the pkginfo files the repository can hold; the first
\* NumPkginfos of them exist.
PkginfoFiles ==
    << <<"one.plist">>, <<"apps", "two.plist">>, <<"apps", "three.plist">>,
       <<"four.plist">> >>

PkginfoPath(k) == pkgsinfo_path \o PkginfoFiles[k]

PkginfoPaths == {PkginfoPath(k) : k \in 1..NumPkginfos}

Names == {Foo, FooBar}
Categories == {"apps"}
tool_pkg == <<"vendor", "tool.pkg">>
Locations == {tool_pkg}

\* A pkginfo: the keys deprecate.py and report.py read.
Pkginfos ==
    [name : Names, category : Categories \cup {None},
     installer_item_location : Locations \cup {<<>>}]

\* plist.get(key): a key that is missing reads as its falsy value.
get(plist, key) == plist[key]

\* tools.build_pkginfo_cache(repo_path): every pkginfo file below
\* <repo>/pkgsinfo, keyed by its path.
build_pkginfo_cache(repo_path) ==
    LET found == {p \in DOMAIN plists :
                    p \in files /\ under(p, repo_path \o <<"pkgsinfo">>)}
    IN [p \in found |-> plists[p]]

\* cache.items(): the keys of a cache in the order the loops visit them.
items(c) == SelectSeq([k \in 1..Len(PkginfoFiles) |-> PkginfoPath(k)],
                      LAMBDA p : p \in DOMAIN c)

\* The elements of a list.
elements(s) == {s[k] : k \in 1..Len(s)}

(***************************************************************************)
(* Removal planner.                                                        *)
(***************************************************************************)
\* The pkg paths of a list of pkginfo paths: one per pkginfo that has an
\* installer_item_location, in the order of the list.
pkg_removals_of(pkginfo_removals, c) ==
    LET with_pkg == SelectSeq(pkginfo_removals,
                        LAMBDA p : get(c[p], "installer_item_location") # <<>>)
    IN [k \in 1..Len(with_pkg) |->
            join(get_pkg_path, c[with_pkg[k]]["installer_item_location"])]

get_removals_for_categories(categories, c) ==
    LET pkginfo_removals ==
            SelectSeq(items(c), LAMBDA p : get(c[p], "category") \in categories)
    IN pkginfo_removals \o pkg_removals_of(pkginfo_removals, c)

get_removals_for_names(ns, c) ==
    LET pkginfo_removals ==
            SelectSeq(items(c), LAMBDA p : get(c[p], "name") \in ns)
    IN pkginfo_removals \o pkg_removals_of(pkginfo_removals, c)

\* get_removals_from_plist without the "in cache" filter of line 114.
get_removals_from_plist_unfiltered(data, c) ==
    LET pkginfo_removals == [k \in 1..Len(data.removals) |-> data.removals[k].path]
    IN pkginfo_removals
        \o pkg_removals_of(SelectSeq(pkginfo_removals, LAMBDA p : p \in DOMAIN c), c)

\* data is the parsed plist: [removals |-> <<[path |-> ...], ...>>].
get_removals_from_plist(data, c) ==
    LET listed == [k \in 1..Len(data.removals) |-> data.removals[k].path]
        pkginfo_removals == SelectSeq(listed, LAMBDA p : p \in DOMAIN c)
    IN pkginfo_removals \o pkg_removals_of(pkginfo_removals, c)

get_files_to_remove(a, c) ==
    (IF a.category # {} THEN get_removals_for_categories(a.category, c) ELSE <<>>)
    \o (IF a.name # {} THEN get_removals_for_names(a.name, c) ELSE <<>>)
    \o (IF a.plist # <<>> THEN get_removals_from_plist(removal_plist, c) ELSE <<>>)

\* get_names_to_remove without the set difference of line 139.
get_names_to_remove_no_difference(rs, c) ==
    {get(c[p], "name") : p \in elements(rs) \cap DOMAIN c}

get_names_to_remove(rs, c) ==
    LET future_cache == [p \in DOMAIN c \ elements(rs) |-> c[p]]
        remaining_names == {get(future_cache[p], "name") : p \in DOMAIN future_cache}
        removal_names == {get(c[p], "name") : p \in elements(rs) \cap DOMAIN c}
    IN removal_names \ remaining_names

\* The pkginfo paths a warning is printed for.
warn_about_multiple_refs(rs, c) ==
    {p \in DOMAIN c :
        /\ p \notin elements(rs)
        /\ get(c[p], "installer_item_location") \in elements(rs)}

(***************************************************************************)
(* Removal executor: helpers.                                              *)
(***************************************************************************)
\* The outcomes of make_folders(folder) with directories d and n errors
\* raised so far: the folder exists or is created (ok), or os.makedirs
\* raises OSError and the run quits (not ok).  os.makedirs creates the
\* missing directories from the top down, so it can fail on any of them
\* after it created the ones above.
make_folders(folder, d, n) ==
    IF folder \in files \/ folder \in d
    THEN {[ok |-> TRUE, dirs |-> d, faults |-> n]}
    ELSE LET missing == {a \in ancestors(folder) : a \notin d}
         IN {[ok |-> TRUE, dirs |-> d \cup ancestors(folder), faults |-> n]}
            \cup (IF n < MaxFaults
                  THEN {[ok |-> FALSE,
                         dirs |-> d \cup {b \in missing : Len(b) < Len(a)},
                         faults |-> n + 1] : a \in missing}
                  ELSE {})

\* Path p of the tree src, as it is named once the tree is dst.
rebase(p, src, dst) == dst \o SubSeq(p, Len(src) + 1, Len(p))

\* The outcomes of shutil.move(src, dst).  The file or the directory tree
\* is renamed, a file at the destination is replaced (ok).  The move raises
\* (not ok) when src does not exist, when the destination exists inside an
\* existing directory dst, or when the operating system refuses; a refused
\* os.rename makes shutil.move copy and then delete the source, so the
\* refusal can come with nothing changed, after a part of the tree or all
\* of it was copied (directories before what they hold), or after the copy
\* and a part of the deletion of the source (a directory after what it
\* holds, src itself last).
shutil_move(src, dst, f, d, pl, n) ==
    LET real_dst == IF dst \in d THEN join(dst, <<src[Len(src)]>>) ELSE dst
        moved == {p \in f \cup d : under(p, src)}
        to(p) == rebase(p, src, real_dst)
        after(copied, removed, ok, raised) ==
            LET new == {to(p) : p \in copied \cap DOMAIN pl}
                kept == (DOMAIN pl \ removed) \ new
            IN [ok |-> ok,
                files |-> (f \ removed) \cup {to(p) : p \in copied \cap f},
                dirs |-> (d \ removed) \cup {to(p) : p \in copied \cap d},
                plists |-> [p \in kept \cup new |->
                              IF p \in new
                              THEN pl[CHOOSE q \in copied \cap DOMAIN pl : to(q) = p]
                              ELSE pl[p]],
                faults |-> raised]
        copies == {C \in SUBSET moved : \A p \in C : p = src \/ dirname(p) \in C}
        removes == {R \in SUBSET moved :
                        /\ src \notin R
                        /\ \A p \in R : \A q \in moved : under(q, p) => q \in R}
    IN IF moved = {} \/ (dst \in d /\ (real_dst \in f \/ real_dst \in d))
       THEN {after({}, {}, FALSE, n)}
       ELSE {after(moved, moved, TRUE, n)}
            \cup (IF n < MaxFaults
                  THEN {after(C, {}, FALSE, n + 1) : C \in copies}
                        \cup {after(moved, R, FALSE, n + 1) : R \in removes}
                  ELSE {})

\* The outcomes of os.remove(item): the file is unlinked (ok) or OSError is
\* raised (not ok): item is no regular file, or the operating system refuses.
os_remove(item, f, n) ==
    IF item \notin f
    THEN {[ok |-> FALSE, files |-> f, faults |-> n]}
    ELSE {[ok |-> TRUE, files |-> f \ {item}, faults |-> n]}
         \cup (IF n < MaxFaults
               THEN {[ok |-> FALSE, files |-> f, faults |-> n + 1]}
               ELSE {})

\* list.remove(item): the first occurrence.
RECURSIVE list_remove(_, _)
list_remove(product_array, item) ==
    IF product_array = <<>> THEN <<>>
    ELSE IF Head(product_array) = item THEN Tail(product_array)
    ELSE <<Head(product_array)>> \o list_remove(Tail(product_array), item)

\* "for item in removals: product_array.remove(item)"
RECURSIVE remove_each(_, _)
remove_each(product_array, rs) ==
    IF rs = <<>> THEN product_array
    ELSE remove_each(list_remove(product_array, Head(rs)), Tail(rs))

\* handle_name_removal with a prefix test in place of the membership test
\* of line 270.
handle_name_removal_by_prefix(product_array, names_to_remove, key) ==
    LET rs == SelectSeq(product_array,
                        LAMBDA item : startswith_any(item, names_to_remove))
    IN [product_array |-> remove_each(product_array, rs),
        changes |-> rs # <<>>,
        advised |-> {}]

\* The list after the call, the returned flag, and the items the "may match
\* a name to remove" advisory is printed for.
handle_name_removal(product_array, names_to_remove, key) ==
    LET rs == SelectSeq(product_array, LAMBDA item : item \in names_to_remove)
        advised == {item \in elements(product_array) :
                        /\ item \notin names_to_remove
                        /\ startswith_any(item, names_to_remove)
                        /\ ~endswith_any(item, names_to_remove)}
    IN [product_array |-> remove_each(product_array, rs),
        changes |-> rs # <<>>,
        advised |-> advised]

keys == <<"managed_installs", "optional_installs", "managed_updates",
          "managed_uninstalls">>

\* The loop over keys on one dictionary (a manifest or one of its
\* conditional_items): the dictionary after it, whether a list changed, the
\* advisories.
strip_keys(d, names_to_remove, prefix) ==
    LET result(key) == handle_name_removal(d[key], names_to_remove, <<prefix, key>>)
        touched == {k \in 1..Len(keys) : d[keys[k]] # <<>>}
    IN [dict |-> [key \in DOMAIN d |->
                    IF \E k \in touched : keys[k] = key
                    THEN result(key).product_array ELSE d[key]],
        changed |-> \E k \in touched : result(keys[k]).changes,
        advised |-> UNION {result(keys[k]).advised : k \in touched}]

\* strip_manifest with "changed" set whatever handle_name_removal returns:
\* the manifest is written at line 262 in any case.
strip_manifest_always_changed(manifest, names_to_remove) ==
    LET top == strip_keys(manifest, names_to_remove, "")
        conditionals == manifest["conditional_items"]
        cond(k) == strip_keys(conditionals[k], names_to_remove, "conditional ")
    IN [manifest |-> [top.dict EXCEPT !["conditional_items"] =
                        [k \in 1..Len(conditionals) |-> cond(k).dict]],
        changed |-> TRUE,
        advised |-> top.advised
                      \cup UNION {cond(k).advised : k \in 1..Len(conditionals)}]

\* The body of the loop over manifests for one manifest that could be read.
strip_manifest(manifest, names_to_remove) ==
    LET top == strip_keys(manifest, names_to_remove, "")
        conditionals == manifest["conditional_items"]
        cond(k) == strip_keys(conditionals[k], names_to_remove, "conditional ")
    IN [manifest |-> [top.dict EXCEPT !["conditional_items"] =
                        [k \in 1..Len(conditionals) |-> cond(k).dict]],
        changed |-> top.changed \/ \E k \in 1..Len(conditionals) : cond(k).changed,
        advised |-> top.advised
                      \cup UNION {cond(k).advised : k \in 1..Len(conditionals)}]

\* remove_names_from_manifests with the planned names as the filter: line
\* 225 without the subtraction of remaining_names.
remove_names_from_manifests_planned(ns) ==
    IF ns = {}
    THEN [manifests |-> manifests, written |-> {}, advised |-> {}, read |-> {}]
    ELSE
    LET names_to_remove == ns
        readable == {m \in DOMAIN manifests : manifests[m].readable}
        stripped(m) == strip_manifest(manifests[m], names_to_remove)
    IN [manifests |-> [m \in DOMAIN manifests |->
                        IF m \in readable /\ stripped(m).changed
                        THEN stripped(m).manifest ELSE manifests[m]],
        written |-> {m \in readable : stripped(m).changed},
        advised |-> UNION {stripped(m).advised : m \in readable},
        read |-> readable]

\* The manifests, the set of manifests written and the advisories after
\* remove_names_from_manifests(ns).
remove_names_from_manifests(ns) ==
    IF ns = {}
    THEN [manifests |-> manifests, written |-> {}, advised |-> {}, read |-> {}]
    ELSE
    LET c == build_pkginfo_cache(get_repo_path)
        remaining_names == {get(c[p], "name") : p \in DOMAIN c}
        names_to_remove == ns \ remaining_names
        readable == {m \in DOMAIN manifests : manifests[m].readable}
        stripped(m) == strip_manifest(manifests[m], names_to_remove)
    IN [manifests |-> [m \in DOMAIN manifests |->
                        IF m \in readable /\ stripped(m).changed
                        THEN stripped(m).manifest ELSE manifests[m]],
        written |-> {m \in readable : stripped(m).changed},
        advised |-> UNION {stripped(m).advised : m \in readable},
        read |-> readable]

(***************************************************************************)
(* Initial states: a repository and a command line.                        *)
(***************************************************************************)
no_lists ==
    [managed_installs |-> <<>>, optional_installs |-> <<>>,
     managed_updates |-> <<>>, managed_uninstalls |-> <<>>]

\* A manifest file: its four lists and its conditional_items; readable is
\* FALSE for a file FoundationPlist.readPlist cannot parse.
Manifest(lists, conditionals, readable) ==
    [managed_installs |-> lists.managed_installs,
     optional_installs |-> lists.optional_installs,
     managed_updates |-> lists.managed_updates,
     managed_uninstalls |-> lists.managed_uninstalls,
     conditional_items |-> conditionals,
     readable |-> readable]

InitManifests ==
    [m \in {"site_default", "servers", "broken"} |->
        CASE m = "site_default" ->
                Manifest([no_lists EXCEPT !.managed_installs = <<Foo, FooBar>>,
                                          !.managed_uninstalls = <<Bar, Foo>>],
                         << [no_lists EXCEPT !.optional_installs = <<FooBar, Foo, FooBar>>],
                            [no_lists EXCEPT !.managed_updates = <<Foo>>] >>,
                         TRUE)
          [] m = "servers" ->
                Manifest([no_lists EXCEPT !.managed_installs = <<Bar>>], <<>>, TRUE)
          [] m = "broken" ->
                Manifest(no_lists, <<>>, FALSE)]

RepoDirs ==
    {get_repo_path, pkgsinfo_path, pkgsinfo_path \o <<"apps">>, get_pkg_path,
     get_pkg_path \o <<"vendor">>, get_repo_path \o <<"manifests">>}

\* What the installer store holds at vendor/tool.pkg: a flat package, a
\* bundle package (a directory with its payload inside), or nothing.
Stores == {"flat", "bundle", "missing"}

tool_pkg_path == join(get_pkg_path, tool_pkg)

StoreFiles(store) ==
    CASE store = "flat" -> {tool_pkg_path}
      [] store = "bundle" -> {tool_pkg_path \o <<"Contents", "Archive.pax.gz">>}
      [] store = "missing" -> {}

StoreDirs(store) ==
    CASE store = "bundle" -> {tool_pkg_path, tool_pkg_path \o <<"Contents">>}
      [] OTHER -> {}

removals_plist_path == <<"", "tmp", "removals.plist">>

\* The command line: args.category and args.name are lists of strings,
\* args.plist and args.archive are paths, <<>> when the option is not given.
Args ==
    [category : {{}, {"apps"}}, name : {{}, {Foo}},
     plist : {<<>>, removals_plist_path},
     force : BOOLEAN, archive : {<<>>, archive_root}]

\* The removal plist lists the first pkginfo and a pkginfo that a previous
\* run removed.
InitRemovalPlist ==
    [removals |-> << [path |-> PkginfoPath(1)],
                     [path |-> pkgsinfo_path \o <<"old.plist">>] >>]

Responses == {"yes", "n", ""}

\* response.upper()
upper(r) ==
    CASE r = "yes" -> "YES" [] r = "y" -> "Y" [] r = "n" -> "N"
      [] r = ".pkg" -> ".PKG" [] r = ".mpkg" -> ".MPKG" [] r = ".gz" -> ".GZ"
      [] r = ".dmg" -> ".DMG" [] r = ".plist" -> ".PLIST"
      [] OTHER -> r

\* Line 53 without the test of the answer.
affirmative_any(r) == TRUE

\* Line 53, negated: the answer lets the run continue.
affirmative(r) == upper(r) \in {"Y", "YES"}

RunLocals ==
    /\ cache = <<>>
    /\ removals = <<>>
    /\ names = {}
    /\ warnings = {}
    /\ response = NoResponse
    /\ idx = 1
    /\ gone = {}
    /\ errors = {}
    /\ read = {}
    /\ written = {}
    /\ advisories = {}
    /\ exit_status = NoStatus

\* A repository: NumPkginfos pkginfo files, the installer store, the
\* manifests.
RepoInit ==
    /\ plists \in [PkginfoPaths -> Pkginfos]
    /\ \E store \in Stores :
        /\ files = PkginfoPaths \cup StoreFiles(store)
        /\ dirs = RepoDirs \cup StoreDirs(store)
    /\ manifests = InitManifests

Init ==
    /\ RepoInit
    /\ removal_plist = InitRemovalPlist
    /\ args \in Args
    /\ pc = "start"
    /\ run = 1
    /\ faults = 0
    /\ report_items = {}
    /\ added = {}
    /\ used_items = {}
    /\ passes = 0
    /\ RunLocals

(***************************************************************************)
(* deprecate(args), step by step.                                          *)
(***************************************************************************)
fs == <<files, dirs, plists>>
repo == <<files, dirs, plists, manifests>>
inputs == <<removal_plist, args, run, report_items, added, used_items, passes>>
plan == <<cache, removals, names, warnings>>

\* Lines 41-51: build the cache, plan, print; --force skips the prompt.
Plan ==
    /\ pc = "start"
    /\ LET c == build_pkginfo_cache(get_repo_path)
           rs == get_files_to_remove(args, c)
       IN /\ cache' = c
          /\ removals' = rs
          /\ names' = get_names_to_remove(rs, c)
          /\ warnings' = warn_about_multiple_refs(rs, c)
    /\ pc' = IF args.force THEN (IF args.archive # <<>> THEN "folders" ELSE "files")
             ELSE "confirm"
    /\ UNCHANGED <<repo, inputs, response, idx, gone, errors, read, written,
                   advisories, exit_status, faults>>

\* Lines 52-54: the prompt; any answer but Y or YES exits.
Confirm ==
    /\ pc = "confirm"
    /\ \E r \in Responses :
        /\ response' = r
        /\ IF affirmative(r)
           THEN /\ pc' = IF args.archive # <<>> THEN "folders" ELSE "files"
                /\ UNCHANGED exit_status
           ELSE /\ pc' = "exited"
                /\ exit_status' = 0
    /\ UNCHANGED <<repo, inputs, plan, idx, gone, errors, read, written, advisories,
                   faults>>

\* sys.exit(1) of make_folders.
Quit(d, n) ==
    /\ pc' = "exited"
    /\ exit_status' = 1
    /\ dirs' = d
    /\ faults' = n
    /\ UNCHANGED <<files, plists, idx, gone>>

\* move_to_archive, lines 176-179: the two top folders of the archive.
MakeArchiveFolders ==
    /\ pc = "folders"
    /\ LET pkgs_folder == join(args.archive, <<"pkgs">>)
           pkgsinfo_folder == join(args.archive, <<"pkgsinfo">>)
       IN \E first \in make_folders(pkgs_folder, dirs, faults) :
            IF ~first.ok THEN Quit(first.dirs, first.faults)
            ELSE \E second \in make_folders(pkgsinfo_folder, first.dirs, first.faults) :
                    IF ~second.ok THEN Quit(second.dirs, second.faults)
                    ELSE /\ pc' = "files"
                         /\ dirs' = second.dirs
                         /\ faults' = second.faults
                         /\ UNCHANGED <<files, plists, idx, gone, exit_status>>
    /\ UNCHANGED <<manifests, inputs, plan, response, errors, read, written,
                   advisories>>

\* move_to_archive, lines 182-187: one turn of the loop.  An exception of
\* shutil.move is not caught: the run ends with a traceback.
MoveItem ==
    /\ pc = "files"
    /\ args.archive # <<>>
    /\ idx <= Len(removals)
    /\ LET item == removals[idx]
           archive_item == replace(item, get_repo_path, args.archive)
       IN IF item = <<>>
          THEN /\ idx' = idx + 1
               /\ UNCHANGED <<fs, pc, gone, exit_status, faults>>
          ELSE \E mk \in make_folders(dirname(archive_item), dirs, faults) :
                IF ~mk.ok THEN Quit(mk.dirs, mk.faults)
                ELSE \E mv \in shutil_move(item, archive_item, files, mk.dirs,
                                           plists, mk.faults) :
                        IF ~mv.ok
                        THEN /\ pc' = "crashed"
                             /\ exit_status' = 1
                             /\ files' = mv.files
                             /\ dirs' = mv.dirs
                             /\ plists' = mv.plists
                             /\ faults' = mv.faults
                             /\ UNCHANGED <<idx, gone>>
                        ELSE /\ files' = mv.files
                             /\ dirs' = mv.dirs
                             /\ plists' = mv.plists
                             /\ faults' = mv.faults
                             /\ gone' = gone \cup {item}
                             /\ idx' = idx + 1
                             /\ UNCHANGED <<pc, exit_status>>
    /\ UNCHANGED <<manifests, inputs, plan, response, errors, read, written,
                   advisories>>

\* remove, lines 203-209: one turn of the loop.  OSError is caught and
\* printed.
RemoveItem ==
    /\ pc = "files"
    /\ args.archive = <<>>
    /\ idx <= Len(removals)
    /\ LET item == removals[idx]
       IN IF item = <<>>
          THEN UNCHANGED <<files, plists, gone, errors, faults>>
          ELSE \E rm \in os_remove(item, files, faults) :
                /\ files' = rm.files
                /\ faults' = rm.faults
                /\ plists' = [p \in DOMAIN plists \cap rm.files |-> plists[p]]
                /\ IF rm.ok
                   THEN gone' = gone \cup {item} /\ UNCHANGED errors
                   ELSE errors' = errors \cup {item} /\ UNCHANGED gone
    /\ idx' = idx + 1
    /\ UNCHANGED <<dirs, manifests, inputs, plan, response, pc, read, written,
                   advisories, exit_status>>

\* Line 61 and lines 212-262: the manifest pass, then the run ends.
RewriteManifests ==
    /\ pc = "files"
    /\ idx > Len(removals)
    /\ LET result == remove_names_from_manifests(names)
       IN /\ manifests' = result.manifests
          /\ read' = result.read
          /\ written' = result.written
          /\ advisories' = result.advised
    /\ pc' = "done"
    /\ exit_status' = 0
    /\ UNCHANGED <<fs, inputs, plan, response, idx, gone, errors, faults>>

Next ==
    \/ Plan
    \/ Confirm
    \/ MakeArchiveFolders
    \/ MoveItem
    \/ RemoveItem
    \/ RewriteManifests

Spec == Init /\ [][Next]_vars

Finished == pc \in {"done", "exited", "crashed"}

(***************************************************************************)
(* Replay: deprecate is run again with the same command line on the        *)
(* repository the previous run left.                                       *)
(***************************************************************************)
RemovalPlists ==
    {InitRemovalPlist,
     [removals |-> << [path |-> PkginfoPath(2)], [path |-> PkginfoPath(1)] >>]}

InitReplay ==
    /\ RepoInit
    /\ removal_plist \in RemovalPlists
    /\ args \in {a \in Args : a.category = {} /\ a.name = {} /\ a.plist # <<>>}
    /\ pc = "start"
    /\ run = 1
    /\ faults = 0
    /\ report_items = {}
    /\ added = {}
    /\ used_items = {}
    /\ passes = 0
    /\ RunLocals

\* The next invocation of deprecate: a new process, nothing kept in memory.
Restart ==
    /\ Finished
    /\ run < MaxRuns
    /\ run' = run + 1
    /\ pc' = "start"
    /\ cache' = <<>>
    /\ removals' = <<>>
    /\ names' = {}
    /\ warnings' = {}
    /\ response' = NoResponse
    /\ idx' = 1
    /\ gone' = {}
    /\ errors' = {}
    /\ read' = {}
    /\ written' = {}
    /\ advisories' = {}
    /\ exit_status' = NoStatus
    /\ UNCHANGED <<repo, removal_plist, args, faults, report_items, added,
                   used_items, passes>>

NextReplay ==
    \/ Next
    \/ Restart

SpecReplay == InitReplay /\ [][NextReplay]_vars

(***************************************************************************)
(* A shared repository: while deprecate runs, another actor writes pkginfo *)
(* files into it.                                                          *)
(***************************************************************************)
\* The pkginfo paths the other actor may write: the paths of the repository
\* and one more.
ExternalPaths == {PkginfoPath(k) : k \in 1..(NumPkginfos + 1)}

\* The run selects by name (--name), so the pkginfos carry no category.
InitShared ==
    /\ plists \in [PkginfoPaths -> {plist \in Pkginfos : plist.category = None}]
    /\ files = PkginfoPaths \cup StoreFiles("flat")
    /\ dirs = RepoDirs \cup StoreDirs("flat")
    /\ manifests = InitManifests
    /\ removal_plist = InitRemovalPlist
    /\ args \in {a \in Args : a.category = {} /\ a.plist = <<>>}
    /\ pc = "start"
    /\ run = 1
    /\ faults = 0
    /\ report_items = {}
    /\ added = {}
    /\ used_items = {}
    /\ passes = 0
    /\ RunLocals

\* Between the planning and the manifest pass of deprecate, another actor
\* writes a pkginfo file that is not there, once per path.
ExternalAdd ==
    /\ pc \in {"confirm", "folders", "files"}
    /\ \E p \in ExternalPaths \ (files \cup added), n \in Names :
        /\ files' = files \cup {p}
        /\ plists' = [q \in DOMAIN plists \cup {p} |->
                        IF q = p
                        THEN [name |-> n, category |-> None,
                              installer_item_location |-> <<>>]
                        ELSE plists[q]]
        /\ added' = added \cup {p}
    /\ UNCHANGED <<dirs, manifests, removal_plist, args, pc, run, plan,
                   response, idx, gone, errors, read, written, advisories,
                   exit_status, faults, report_items, used_items, passes>>

NextShared ==
    \/ Next
    \/ ExternalAdd

SpecShared == InitShared /\ [][NextShared]_vars

(***************************************************************************)
(* OrphanedInstallerReport (report.py).                                    *)
(***************************************************************************)
\* os.path.splitext(path)[1]: the extension of the last component.
splitext_ext(path) ==
    LET base == path[Len(path)]
    IN CASE base = "tool.pkg" -> ".pkg"
         [] base = "Archive.pax.gz" -> ".gz"
         [] base = "old.dmg" -> ".dmg"
         [] base \in {"one.plist", "two.plist", "three.plist", "four.plist"} -> ".plist"
         [] OTHER -> ""

\* os.walk(top): top and the directories below it, parents first.
RECURSIVE walk_order(_)
walk_order(S) ==
    IF S = {} THEN <<>>
    ELSE LET d == CHOOSE x \in S : \A y \in S : Len(x) <= Len(y)
         IN <<d>> \o walk_order(S \ {d})

os_walk(top) == walk_order({d \in dirs : under(d, top)})

\* The filenames os.walk yields for dirpath.
filenames(dirpath) == {f[Len(f)] : f \in {g \in files : dirname(g) = dirpath}}

\* Lines 226-231: the path of dirpath/filename relative to pkgs_dir.
\* dirpath.split(pkgs_dir)[1] is "" for pkgs_dir itself and starts with a
\* slash below it; the slash is sliced off after the join.
rel_filename(dirpath, filename, pkgs_dir) ==
    LET rest == SubSeq(dirpath, Len(pkgs_dir) + 1, Len(dirpath))
        rel_path == IF rest = <<>> THEN <<>> ELSE <<"">> \o rest
        joined == join(rel_path, <<filename>>)
    IN IF joined[1] = "" THEN Tail(joined) ELSE joined

\* The loop of lines 215-236 over the directories still to visit.
RECURSIVE walk_report(_, _, _, _, _)
walk_report(todo, pkgs_dir, used_packages, report, bundle_packages) ==
    IF todo = <<>> THEN report
    ELSE
    LET dirpath == Head(todo)
    IN IF \E bundle_pkg \in bundle_packages : find(dirpath, bundle_pkg) # 0
       THEN walk_report(Tail(todo), pkgs_dir, used_packages, report, bundle_packages)
       ELSE IF upper(splitext_ext(dirpath)) \in {".PKG", ".MPKG"}
       THEN IF dirpath \notin used_packages
            THEN walk_report(Tail(todo), pkgs_dir, used_packages,
                             report \cup {dirpath}, bundle_packages \cup {dirpath})
            ELSE walk_report(Tail(todo), pkgs_dir, used_packages, report,
                             bundle_packages)
       ELSE walk_report(Tail(todo), pkgs_dir, used_packages,
                        report \cup {join(dirpath, <<f>>) :
                                        f \in {g \in filenames(dirpath) :
                                                rel_filename(dirpath, g, pkgs_dir)
                                                    \notin used_packages}},
                        bundle_packages)

\* OrphanedInstallerReport.run_report: the paths of the items it collects.
run_report(pkgsinfo, munki_repo) ==
    LET used_packages == {pkgsinfo[p]["installer_item_location"] :
                            p \in {q \in DOMAIN pkgsinfo :
                                    pkgsinfo[q]["installer_item_location"] # <<>>}}
        pkgs_dir == join(munki_repo, <<"pkgs">>)
    IN walk_report(os_walk(pkgs_dir), pkgs_dir, used_packages, {}, {})

\* An installer nobody may refer to, at the top of the installer store.
old_dmg_path == join(get_pkg_path, <<"old.dmg">>)

\* build_expanded_cache, line 384: <repo>/catalogs/all.
all_path == join(join(get_repo_path, <<"catalogs">>), <<"all">>)

\* Lines 385-388: readPlist(all_path) raises when the file is not there.
all_plist_readable == all_path \in files

\* The repository the reports run on: with the catalogs makecatalogs wrote,
\* or without them (the repository is not mounted).
InitReport ==
    /\ plists \in [PkginfoPaths -> Pkginfos]
    /\ \E store \in Stores, extra \in SUBSET {old_dmg_path},
          catalogs \in SUBSET {all_path} :
        /\ files = PkginfoPaths \cup StoreFiles(store) \cup extra \cup catalogs
        /\ dirs = RepoDirs \cup StoreDirs(store) \cup {dirname(all_path)}
    /\ manifests = InitManifests
    /\ removal_plist = InitRemovalPlist
    /\ args = [category |-> {}, name |-> {}, plist |-> <<>>, force |-> FALSE,
               archive |-> <<>>]
    /\ pc = "idle"
    /\ run = 1
    /\ faults = 0
    /\ report_items = {}
    /\ added = {}
    /\ used_items = {}
    /\ passes = 0
    /\ RunLocals

\* run_reports: build_expanded_cache, which ends the process with
\* sys.exit("Please mount your Munki repo and try again.") when catalogs/all
\* cannot be read, then the orphaned-installer report on the repository as
\* it is.
OrphanedInstallerReport ==
    /\ pc \in {"idle", "reported"}
    /\ IF ~all_plist_readable
       THEN /\ pc' = "exited"
            /\ exit_status' = 1
            /\ UNCHANGED <<cache, report_items>>
       ELSE /\ cache' = build_pkginfo_cache(get_repo_path)
            /\ report_items' = run_report(cache', get_repo_path)
            /\ pc' = "reported"
            /\ UNCHANGED exit_status
    /\ UNCHANGED <<repo, removal_plist, args, run, removals, names, warnings,
                   response, idx, gone, errors, read, written, advisories,
                   faults, added, used_items, passes>>

\* Between two report runs a pkginfo file is deleted from the repository.
DeletePkginfo ==
    /\ pc \in {"idle", "reported"}
    /\ \E p \in DOMAIN plists :
        /\ files' = files \ {p}
        /\ plists' = [q \in DOMAIN plists \ {p} |-> plists[q]]
        /\ gone' = gone \cup {p}
    /\ pc' = "idle"
    /\ UNCHANGED <<dirs, manifests, removal_plist, args, run, cache, removals,
                   names, warnings, response, idx, errors, read, written,
                   advisories, exit_status, faults, report_items, added,
                   used_items, passes>>

NextReport ==
    \/ OrphanedInstallerReport
    \/ DeletePkginfo

SpecReport == InitReport /\ [][NextReport]_vars

(***************************************************************************)
(* Usage resolver and NoUsageReport (report.py).                           *)
(***************************************************************************)
\* Line 414-415 of report.py: the four lists get_manifest_items reads.
collections ==
    <<"managed_installs", "managed_uninstalls", "optional_installs",
      "managed_updates">>

\* The names of the lists of d named in collections; an empty list adds
\* nothing.
collection_items(d) ==
    UNION {elements(d[collections[k]]) : k \in 1..Len(collections)}

\* get_manifest_items(manifests): every name of the four lists of every
\* manifest and of every conditional_items entry.
get_manifest_items(ms) ==
    UNION {collection_items(ms[manifest])
             \cup UNION {collection_items(ms[manifest]["conditional_items"][j]) :
                            j \in 1..Len(ms[manifest]["conditional_items"])} :
           manifest \in DOMAIN ms}

\* The names that have a descriptor in the cache c.
described(c) == {get(c[p], "name") : p \in DOMAIN c}

\* Dependency expansion, one round: the names required by the descriptors
\* whose name is in used.
requires_of(c, used) ==
    UNION {elements(get(c[p], "requires")) :
             p \in {q \in DOMAIN c : get(c[q], "name") \in used}}

\* Dependency expansion repeated to its fixed point.
RECURSIVE requires_expansion(_, _)
requires_expansion(c, used) ==
    LET grown == used \cup requires_of(c, used)
    IN IF grown = used THEN used ELSE requires_expansion(c, grown)

\* Reverse expansion: the name of every descriptor whose update_for list
\* meets used.
update_for_expansion(c, used) ==
    used \cup {get(c[p], "name") :
                 p \in {q \in DOMAIN c :
                          elements(get(c[q], "update_for")) \cap used # {}}}

\* A pass of the resolver without the reverse expansion: the update_for
\* lists are not looked at.
resolver_pass_requires_only(c, used) == requires_expansion(c, used)

\* One full pass of the resolver: dependency expansion, then reverse
\* expansion.
resolver_pass(c, used) == update_for_expansion(c, requires_expansion(c, used))

\* Repo.get_used_items(manifest_items, sys.maxint): full passes until one
\* changes nothing; a name without a descriptor resolves to no item.
RECURSIVE get_used_items(_, _)
get_used_items(c, manifest_items) ==
    LET grown == resolver_pass(c, manifest_items)
    IN IF grown = manifest_items
       THEN manifest_items \cap described(c)
       ELSE get_used_items(c, grown)

\* The product names of the usage reports.
UsageNames == {Foo, FooBar, Bar}

\* A pkginfo with the keys the resolver reads.
UsagePkginfos ==
    [name : UsageNames, category : {None}, installer_item_location : {<<>>},
     requires : {<<>>, <<Foo>>, <<FooBar>>, <<Bar>>, <<FooBar, Bar>>},
     update_for : {<<>>, <<Foo>>}]

\* Manifests of a repository the usage reports run on.
UsageManifests ==
    {[m \in {"site_default"} |->
        Manifest([no_lists EXCEPT !.managed_installs = installs],
                 << [no_lists EXCEPT !.optional_installs = optional] >>, TRUE)] :
     installs \in {<<>>, <<Foo>>}, optional \in {<<>>, <<FooBar>>}}

InitUsage ==
    /\ plists \in [PkginfoPaths -> UsagePkginfos]
    /\ \E catalogs \in SUBSET {all_path} : files = PkginfoPaths \cup catalogs
    /\ dirs = RepoDirs \cup {dirname(all_path)}
    /\ manifests \in UsageManifests
    /\ removal_plist = InitRemovalPlist
    /\ args = [category |-> {}, name |-> {}, plist |-> <<>>, force |-> FALSE,
               archive |-> <<>>]
    /\ pc = "idle"
    /\ run = 1
    /\ faults = 0
    /\ report_items = {}
    /\ added = {}
    /\ used_items = {}
    /\ passes = 0
    /\ RunLocals

\* build_expanded_cache: sys.exit("Please mount your Munki repo and try
\* again.") when catalogs/all cannot be read (lines 384-389); otherwise the
\* pkginfo cache and the names the manifests refer to (lines 391-397).
BuildExpandedCache ==
    /\ pc = "idle"
    /\ IF ~all_plist_readable
       THEN /\ pc' = "exited"
            /\ exit_status' = 1
            /\ UNCHANGED <<cache, used_items, passes>>
       ELSE /\ cache' = build_pkginfo_cache(get_repo_path)
            /\ used_items' = get_manifest_items(manifests)
            /\ passes' = 0
            /\ pc' = "resolving"
            /\ UNCHANGED exit_status
    /\ UNCHANGED <<repo, removal_plist, args, run, removals, names, warnings,
                   response, idx, gone, errors, read, written, advisories,
                   faults, report_items, added>>

\* One full pass of get_used_items; the pass that changes nothing ends the
\* iteration.
ResolverPass ==
    /\ pc = "resolving"
    /\ LET grown == resolver_pass(cache, used_items)
       IN IF grown = used_items
          THEN /\ used_items' = used_items \cap described(cache)
               /\ pc' = "resolved"
               /\ UNCHANGED passes
          ELSE /\ used_items' = grown
               /\ passes' = passes + 1
               /\ UNCHANGED pc
    /\ UNCHANGED <<repo, removal_plist, args, run, cache, removals, names,
                   warnings, response, idx, gone, errors, read, written,
                   advisories, exit_status, faults, report_items, added>>

\* NoUsageReport.run_report, lines 249-256: the applications that are not
\* used.
NoUsageReport ==
    /\ pc = "resolved"
    /\ report_items' = {p \in DOMAIN cache : get(cache[p], "name") \notin used_items}
    /\ pc' = "reported"
    /\ UNCHANGED <<repo, removal_plist, args, run, cache, removals, names,
                   warnings, response, idx, gone, errors, read, written,
                   advisories, exit_status, faults, added, used_items, passes>>

NextUsage ==
    \/ BuildExpandedCache
    \/ ResolverPass
    \/ NoUsageReport

SpecUsage == InitUsage /\ [][NextUsage]_vars

(***************************************************************************)
(* Vocabulary of the properties.                                           *)
(***************************************************************************)
\* The reference lists of a manifest: the four lists at top level and the
\* four lists of every conditional_items entry.
ReferenceLists(manifest) ==
    {manifest[keys[k]] : k \in 1..Len(keys)}
      \cup {manifest["conditional_items"][j][keys[k]] :
                j \in 1..Len(manifest["conditional_items"]), k \in 1..Len(keys)}

\* The names some manifest refers to.
Referenced == UNION {elements(l) : l \in UNION {ReferenceLists(manifests[m]) :
                                                    m \in DOMAIN manifests}}

\* The names of the planning-time cache all of whose pkginfos this run
\* deleted or moved away.
FullyRemoved ==
    {n \in {cache[p].name : p \in DOMAIN cache} :
        \A p \in DOMAIN cache : cache[p].name = n => p \in gone}

\* The pkginfo paths of the plan.
PlannedPkginfos == elements(removals) \cap DOMAIN cache

\* Where move_to_archive puts a file of the plan.
Mirror(item) == archive_root \o SubSeq(item, Len(get_repo_path) + 1, Len(item))

\* Number of occurrences of item in a list.
Count(l, item) == Cardinality({k \in 1..Len(l) : l[k] = item})

\* The places of the reference lists of the manifest m: 0 for the top
\* level, j for the j-th conditional_items entry.
ListPlaces(m) ==
    (0..Len(InitManifests[m]["conditional_items"])) \X elements(keys)

\* The reference list of the manifest m of ms at a place.
ListAt(ms, m, place) ==
    IF place[1] = 0 THEN ms[m][place[2]]
    ELSE ms[m]["conditional_items"][place[1]][place[2]]

\* The names the manifests referred to before the run.
InitReferenced ==
    UNION {UNION {elements(ListAt(InitManifests, m, place)) :
                    place \in ListPlaces(m)} : m \in DOMAIN InitManifests}

\* The final removal set of the manifest pass, from the repository as it is.
FinalRemovalNames ==
    names \ {plists[p].name : p \in {q \in DOMAIN plists : under(q, pkgsinfo_path)}}

(***************************************************************************)
(* C1: once the removal flow has finished, no reference list of any        *)
(* manifest contains a name all of whose descriptors were removed by this  *)
(* run.                                                                    *)
(***************************************************************************)
C1_NoDanglingReference == Finished => Referenced \cap FullyRemoved = {}

(***************************************************************************)
(* C2: get_names_to_remove returns exactly the names carried by a          *)
(* descriptor of the removal list and by no surviving descriptor; the      *)
(* result is disjoint from the names of the post-removal cache.            *)
(***************************************************************************)
C2_RemovalNames ==
    pc # "start" =>
        LET surviving == DOMAIN cache \ elements(removals)
        IN /\ \A n \in Names :
                n \in names <=>
                    /\ \E p \in PlannedPkginfos : cache[p].name = n
                    /\ \A q \in surviving : cache[q].name # n
           /\ names \cap {cache[q].name : q \in surviving} = {}

\* One version of a product is planned for removal and another one stays:
\* the name is not in the result.
C2_Witness ==
    /\ pc # "start"
    /\ \E p \in PlannedPkginfos, q \in DOMAIN cache \ elements(removals) :
            cache[p].name = cache[q].name /\ cache[p].name \notin names

(***************************************************************************)
(* C3: handle_name_removal removes exact matches only: every item of a     *)
(* manifest list that is not a name of the removal set is in the list      *)
(* afterwards, as often as before; a similar item only gets the advisory.  *)
(***************************************************************************)
C3_ExactMatchOnly ==
    pc = "done" =>
        \A m \in DOMAIN manifests :
            LET before == InitManifests[m]
                after == manifests[m]
                kept(l1, l2) == \A item \in elements(l1) :
                                    item \notin FinalRemovalNames
                                        => Count(l2, item) = Count(l1, item)
            IN /\ \A k \in 1..Len(keys) : kept(before[keys[k]], after[keys[k]])
               /\ Len(after["conditional_items"]) = Len(before["conditional_items"])
               /\ \A j \in 1..Len(before["conditional_items"]), k \in 1..Len(keys) :
                    kept(before["conditional_items"][j][keys[k]],
                         after["conditional_items"][j][keys[k]])
               /\ \A item \in advisories :
                    item \notin FinalRemovalNames /\ item \in Referenced

\* "Foo" was stripped, "FooBar" stayed and the advisory named it.
C3_Witness ==
    /\ pc = "done"
    /\ FinalRemovalNames = {Foo}
    /\ manifests["site_default"]["managed_installs"] = <<FooBar>>
    /\ FooBar \in advisories

(***************************************************************************)
(* C4 (as claimed): no file is deleted or moved and no manifest is         *)
(* rewritten unless the user answered the prompt affirmatively; no flag    *)
(* forces acceptance.                                                      *)
(***************************************************************************)
Mutated ==
    \/ gone # {}
    \/ written # {}
    \/ manifests # InitManifests
    \/ \E d \in dirs : under(d, archive_root)

C4_GateNeverBypassed == Mutated => upper(response) \in {"Y", "YES"}

(***************************************************************************)
(* C4 (amended): no file is deleted or moved, no archive folder is created *)
(* and no manifest is rewritten unless the user answered the prompt with Y *)
(* or YES (in any case) or the run was started with --force, which skips   *)
(* the prompt; a declined confirmation ends the run with exit status 0 and *)
(* the repository unchanged.                                               *)
(***************************************************************************)
C4_GateOrForce ==
    /\ Mutated => (args.force \/ upper(response) \in {"Y", "YES"})
    /\ (response # NoResponse /\ upper(response) \notin {"Y", "YES"})
            => (pc = "exited" /\ exit_status = 0 /\ ~Mutated)
    /\ args.force => response = NoResponse

\* A confirmed run that removed files and rewrote a manifest.
C4_Witness ==
    /\ pc = "done"
    /\ ~args.force
    /\ response = "yes"
    /\ gone # {}
    /\ written # {}

(***************************************************************************)
(* C5: for every descriptor that is not in the removal set and whose       *)
(* installer_item_location designates an installer file slated for removal *)
(* (the installer root joined with that location), a warning is emitted.   *)
(***************************************************************************)
C5_MultipleRefsWarned ==
    pc # "start" =>
        \A p \in DOMAIN cache :
            ( /\ p \notin elements(removals)
              /\ cache[p]["installer_item_location"] # <<>>
              /\ join(get_pkg_path, cache[p]["installer_item_location"])
                    \in elements(removals) )
                => p \in warnings

(***************************************************************************)
(* C6: a filesystem error on one file of the plan is logged and the batch  *)
(* continues, in delete mode and in archive mode alike: a run whose file   *)
(* loop hit an error still attempts every file of the plan and runs the    *)
(* manifest pass.                                                          *)
(***************************************************************************)
C6_BatchContinues ==
    (Finished /\ (errors # {} \/ pc = "crashed"))
        => (pc = "done" /\ idx > Len(removals))

(***************************************************************************)
(* C7: when make_folders quits the run (exit status 1), no manifest has    *)
(* been rewritten and no file of the plan has been moved out of the        *)
(* repository.                                                             *)
(***************************************************************************)
C7_NoPartialArchive ==
    (pc = "exited" /\ exit_status = 1)
        => (written = {} /\ manifests = InitManifests /\ gone = {})

(***************************************************************************)
(* C8: after an archive-mode run in which the operating system raised no   *)
(* error and every file of the plan was in the repository, every file of   *)
(* the plan exists at its mirrored path under the archive root and no      *)
(* longer at its original path.                                            *)
(***************************************************************************)
C8_ArchiveRoundTrip ==
    ( /\ pc \in {"done", "crashed"}
      /\ args.archive # <<>>
      /\ faults = 0
      /\ \A item \in elements(removals) : exists(item) \/ item \in gone )
        => \A item \in elements(removals) : exists(Mirror(item)) /\ ~exists(item)

(***************************************************************************)
(* C9: a second run of the planner on the same removal plist, after a      *)
(* first run removed every listed descriptor, plans nothing (no descriptor *)
(* path, no installer path, no name) and raises no error.                  *)
(***************************************************************************)
ListedPaths == {removal_plist.removals[k].path : k \in 1..Len(removal_plist.removals)}

C9_IdempotentReplay ==
    ( /\ run > 1
      /\ pc # "start"
      /\ gone = {}
      /\ ListedPaths \cap files = {} )
        => /\ removals = <<>>
           /\ names = {}
           /\ pc # "crashed"
           /\ exit_status \in {NoStatus, 0}

\* The second run has finished; the first one removed the listed pkginfos.
C9_Witness ==
    /\ run = 2
    /\ pc = "done"
    /\ ListedPaths \cap files = {}
    /\ PkginfoPath(1) \in ListedPaths
    /\ removals = <<>>

(***************************************************************************)
(* C10: the orphan report lists an installer under the installer root (a   *)
(* flat file, or a bundle directory as a whole) if and only if no          *)
(* descriptor of the cache references it through installer_item_location;  *)
(* nothing inside a bundle is listed.                                      *)
(***************************************************************************)
IsBundle(d) == d \in dirs /\ upper(splitext_ext(d)) \in {".PKG", ".MPKG"}

InsideBundle(p) == \E k \in 1..(Len(p) - 1) : IsBundle(SubSeq(p, 1, k))

Installers ==
    {p \in files \cup {d \in dirs : IsBundle(d)} :
        under(p, get_pkg_path) /\ p # get_pkg_path /\ ~InsideBundle(p)}

ReferencedInstaller(p) ==
    \E q \in DOMAIN cache :
        /\ cache[q]["installer_item_location"] # <<>>
        /\ join(get_pkg_path, cache[q]["installer_item_location"]) = p

C10_OrphanIffUnreferenced ==
    pc = "reported" =>
        /\ report_items \subseteq Installers
        /\ \A p \in Installers : p \in report_items <=> ~ReferencedInstaller(p)

\* Every name in targets that a descriptor named in used requires is in
\* used.
RequiresClosed(used, targets) ==
    \A p \in DOMAIN cache :
        cache[p].name \in used => elements(cache[p].requires) \cap targets \subseteq used

\* The name of every descriptor that is an update for a name in used is in
\* used.
UpdateForClosed(used) ==
    \A p \in DOMAIN cache :
        elements(cache[p].update_for) \cap used # {} => cache[p].name \in used

C12_FilterFromReloadedCache ==
    pc = "done" =>
        \A n \in InitReferenced :
            IF n \in FinalRemovalNames
            THEN n \notin Referenced
            ELSE \A m \in DOMAIN manifests : \A place \in ListPlaces(m) :
                    Count(ListAt(manifests, m, place), n)
                        = Count(ListAt(InitManifests, m, place), n)

\* A run is done that removed every planned pkginfo of a referenced name,
\* and the only pkginfo of that name is one another actor wrote meanwhile.
C12_Witness ==
    /\ pc = "done"
    /\ \E n \in names :
        /\ n \in Referenced
        /\ \A p \in DOMAIN cache : cache[p].name = n => p \in gone
        /\ \E p \in added : p \in files /\ plists[p].name = n
        /\ \A p \in DOMAIN plists :
            (under(p, pkgsinfo_path) /\ plists[p].name = n) => p \in added

(***************************************************************************)
(* C13: no manifest is written before the manifest pass; once the run is   *)
(* done, a manifest was written if and only if one of its reference lists  *)
(* (top level or conditional_items) lost an item, a manifest none of whose *)
(* lists held a final removal name was not written, and every list is the  *)
(* list of before the run without the final removal names, the other       *)
(* items in their order.                                                   *)
(***************************************************************************)
C13_WrittenIffItemLost ==
    /\ pc # "done" => (written = {} /\ manifests = InitManifests)
    /\ pc = "done" =>
        \A m \in DOMAIN manifests :
            /\ m \in written <=>
                \E place \in ListPlaces(m) :
                    Len(ListAt(manifests, m, place))
                        < Len(ListAt(InitManifests, m, place))
            /\ (\A place \in ListPlaces(m) :
                    elements(ListAt(InitManifests, m, place))
                        \cap FinalRemovalNames = {})
                => m \notin written
            /\ Len(manifests[m]["conditional_items"])
                = Len(InitManifests[m]["conditional_items"])
            /\ \A place \in ListPlaces(m) :
                    ListAt(manifests, m, place)
                        = SelectSeq(ListAt(InitManifests, m, place),
                                    LAMBDA item : item \notin FinalRemovalNames)

\* The run stripped Foo and nothing else: managed_installs [Foo, FooBar] of
\* site_default became [FooBar], the conditional list [FooBar, Foo, FooBar]
\* became [FooBar, FooBar], and servers, which holds no Foo, was not written.
C13_Witness ==
    /\ pc = "done"
    /\ FinalRemovalNames = {Foo}
    /\ written = {"site_default"}
    /\ manifests["site_default"]["managed_installs"] = <<FooBar>>
    /\ manifests["site_default"]["conditional_items"][1]["optional_installs"]
        = <<FooBar, FooBar>>
    /\ manifests["servers"] = InitManifests["servers"]

(***************************************************************************)
(* C14: no path occurs twice in the removal plan, so the file loop handles *)
(* no path a second time after it deleted or moved it.                     *)
(***************************************************************************)
C14_PlanWithoutDuplicates ==
    /\ \A i, j \in 1..Len(removals) : removals[i] = removals[j] => i = j
    /\ \A k \in 1..Len(removals) :
        (k >= idx /\ pc = "files") => removals[k] \notin gone

(***************************************************************************)
(* C15: a run that moved or deleted a file of the plan and planned a       *)
(* non-empty set of names ends only after its manifest pass, in delete     *)
(* mode and in archive mode; no manifest is read or written before the     *)
(* file loop has attempted every file of the plan; and with an empty set   *)
(* of names no manifest is read or written.                                *)
(***************************************************************************)
C15_RewriteAfterMutation ==
    /\ (Finished /\ gone # {} /\ names # {}) =>
        (pc = "done" /\ read = {m \in DOMAIN manifests : manifests[m].readable})
    /\ (read # {} \/ written # {} \/ manifests # InitManifests) =>
        (idx > Len(removals) /\ pc = "done")
    /\ names = {} => (read = {} /\ written = {} /\ manifests = InitManifests)

====
